---- MODULE Spec2Model ----
(***************************************************************************)
(* stime: the global start!/check! timer (CHRONO, LAST_DURATION), the      *)
(* activation gate STIME_ACTIVE, the swappable OUTPUT_TARGET, the time_it  *)
(* guard and the duration formatter FDur, from src/src/lib.rs.             *)
(*                                                                         *)
(* Every macro call is a sequence of steps of the calling thread, one per  *)
(* statement of the macro body; a lock that is taken and released inside   *)
(* one statement is one step, the OUTPUT_TARGET guard that is held across  *)
(* the pieces written by writeln! is the variable outLock.                 *)
(***************************************************************************)
EXTENDS Integers, Sequences, FiniteSets, TLC

\* ---------------------------------------------------------------- bounds
Threads == {"t1", "t2"}
MainThread == "t1"
Stderr == "stderr"
Custom == {"X"}
Sinks == {Stderr} \cup Custom
\* calls made in one run, and advances of the monotonic clock
MaxCalls == 3
MaxTicks == 2
\* half-width of the windows of durations the formatter is run on
FmtWindow == 8
\* bytes a Log holds at most, and bytes one call of Log::read is asked for
MaxLog == 3
ReadBuf == 2

VARIABLES
    STIME_ACTIVE,   \* the activation gate, computed once
    now,            \* the monotonic clock, in nanoseconds
    ticks,          \* advances of the clock so far
    CHRONO,         \* Lazy<Mutex<Instant>>: None until first forced
    LAST_DURATION,  \* Mutex<Option<Duration>>
    lastPoisoned,   \* LAST_DURATION's mutex is poisoned
    OUTPUT_TARGET,  \* the sink installed in Target.inner
    outLock,        \* holder of Target.inner's mutex, or None
    written,        \* every piece written to any sink, in order
    hist,           \* the last three timer events: resets by start, totals and deltas of check
    calls,          \* calls begun so far
    pc,             \* per thread: the statement it is at
    op, id,         \* per thread: its current or last call and that call's number
    target,         \* per thread: the target of its start!
    tmp, delta,     \* per thread: the instant or total_time, and delta
    res,            \* per thread: the Result its last call's body ended with
    outcome,        \* per thread: how its last call ended
    guard,          \* per thread: the live TimeIt guard, or None
    fmtIn, fmtOut,  \* the formatter's input and output
    logCell,        \* the Arc<Mutex<Log>> allocations: each a buffer v and a cursor c
    logHandle,      \* per CustomLog handle: the allocation it points to, 0 before it exists
    logGot,         \* per handle: what its last read() returned, since the last write
    logUnread       \* the text written through any handle since the last read through any

vars == <<STIME_ACTIVE, now, ticks, CHRONO, LAST_DURATION, lastPoisoned,
          OUTPUT_TARGET, outLock, written, hist, calls, pc, op, id, target,
          tmp, delta, res, outcome, guard, fmtIn, fmtOut,
          logCell, logHandle, logGot, logUnread>>

clockVars == <<now, ticks>>
timerVars == <<CHRONO, LAST_DURATION, lastPoisoned, hist>>
sinkVars == <<OUTPUT_TARGET, outLock, written>>
fmtVars == <<fmtIn, fmtOut>>
logVars == <<logCell, logHandle, logGot, logUnread>>

None == [tag |-> "None"]
Some(v) == [tag |-> "Some", val |-> v]

\* ------------------------------------------------------------ formatter
as_secs(d) == d \div 1000000000
as_millis(d) == d \div 1000000
as_micros(d) == d \div 1000
as_nanos(d) == d

\* FDur as it would be if it rounded to the nearest unit
FDurRounded(d) ==
    LET Round(q) == (d \div q) + (IF 2 * (d % q) >= q THEN 1 ELSE 0)
    IN  IF as_secs(d) # 0 THEN <<Round(1000000000), "s">>
        ELSE IF as_millis(d) # 0 THEN <<Round(1000000), "ms">>
        ELSE IF as_micros(d) # 0 THEN <<Round(1000), "us">>
        ELSE <<as_nanos(d), "ns">>

\* impl Display for FDur: the printed number and its unit
FDur(d) ==
    IF as_secs(d) # 0 THEN <<as_secs(d), "s">>
    ELSE IF as_millis(d) # 0 THEN <<as_millis(d), "ms">>
    ELSE IF as_micros(d) # 0 THEN <<as_micros(d), "us">>
    ELSE <<as_nanos(d), "ns">>

NoDur == <<0, "">>

\* one piece of a line as a sink receives it; the message text stands for
\* the call that wrote it
Piece(s, c, k, p, d) == [sink |-> s, call |-> c, kind |-> k, part |-> p, dur |-> d]

\* the timer events kept: the last three
Remember(h, e) == IF Len(h) < 3 THEN Append(h, e) ELSE <<h[2], h[3], e>>

\* ------------------------------------------------------------- helpers
Goto(t, p) == pc' = [pc EXCEPT ![t] = p]

\* the locals of a call that has ended are dead
Locals(t, x, a, b) ==
    /\ target' = [target EXCEPT ![t] = x]
    /\ tmp' = [tmp EXCEPT ![t] = a]
    /\ delta' = [delta EXCEPT ![t] = b]

Ended(t) == Goto(t, "idle") /\ Locals(t, Stderr, 0, 0)

\* rtry! as it would be if it dropped the closure's Result
rtryIgnored(t, r) ==
    /\ res' = [res EXCEPT ![t] = r]
    /\ outcome' = [outcome EXCEPT ![t] = "ok"]
    /\ Ended(t)

\* rtry!: if let Err(e) = (closure)() { panic!("stime failed: {}", e) }
rtry(t, r) ==
    /\ res' = [res EXCEPT ![t] = r]
    /\ outcome' = [outcome EXCEPT ![t] =
            IF r = "Ok" THEN "ok" ELSE IF r = "WriteErr" THEN "failed: write"
            ELSE "failed: poisoned"]
    /\ Ended(t)

\* a thread begins a call; the thread that makes the first call of the run
\* is the one named MainThread
BeginCall(t, o) ==
    /\ pc[t] = "idle"
    /\ calls < MaxCalls
    /\ calls = 0 => t = MainThread
    /\ calls' = calls + 1
    /\ op' = [op EXCEPT ![t] = o]
    /\ id' = [id EXCEPT ![t] = calls + 1]

\* the body of the call is running, or the call has no Result
NoResult(t) == res' = [res EXCEPT ![t] = "none"]

\* ----------------------------------------------------------- CustomLog
Handles == {"log", "clone"}
Cells == {1, 2}
Bytes == {"a", "b"}

NewLog == [v |-> <<>>, c |-> 0]
NoLog == [v |-> <<>>, c |-> -1]
NoRead == [tag |-> "NoRead"]

\* ---------------------------------------------------------------- Init
ProgInit ==
    /\ STIME_ACTIVE \in BOOLEAN
    /\ now = 0
    /\ ticks = 0
    /\ CHRONO = None
    /\ LAST_DURATION = None
    /\ lastPoisoned = FALSE
    /\ OUTPUT_TARGET = Stderr
    /\ outLock = None
    /\ written = <<>>
    /\ hist = <<>>
    /\ calls = 0
    /\ pc = [t \in Threads |-> "idle"]
    /\ op = [t \in Threads |-> "none"]
    /\ id = [t \in Threads |-> 0]
    /\ target = [t \in Threads |-> Stderr]
    /\ tmp = [t \in Threads |-> 0]
    /\ delta = [t \in Threads |-> 0]
    /\ res = [t \in Threads |-> "none"]
    /\ outcome = [t \in Threads |-> "none"]
    /\ guard = [t \in Threads |-> None]

\* let log: CustomLog<Log> = CustomLog::default(): one allocation, empty,
\* with the cursor at 0, and no clone yet
LogInit ==
    /\ logCell = [k \in Cells |-> IF k = 1 THEN NewLog ELSE NoLog]
    /\ logHandle = [h \in Handles |-> IF h = "log" THEN 1 ELSE 0]
    /\ logGot = [h \in Handles |-> NoRead]
    /\ logUnread = <<>>

Init ==
    /\ ProgInit
    /\ fmtIn = 0
    /\ fmtOut = NoDur
    /\ LogInit

\* --------------------------------------------------------------- clock
\* the monotonic clock k advances later: 1500 ns, 151500 ns, 15151500 ns, ...
RECURSIVE Later(_, _)
Later(n, k) == IF k = 0 THEN n ELSE Later(n * 100 + 1500, k - 1)

\* Instant::now(): the clock has advanced by some amount since it was last
\* read, possibly by nothing
InstantNow ==
    \E k \in 0..(MaxTicks - ticks) :
        /\ now' = Later(now, k)
        /\ ticks' = ticks + k

\* -------------------------------------------------------------- start!
\* the start of start! as it would be without the test of STIME_ACTIVE
StartGateIgnored(t, x) ==
    /\ Goto(t, "s_now")
    /\ Locals(t, x, 0, 0)
    /\ NoResult(t)
    /\ outcome' = [outcome EXCEPT ![t] = "running"]

\* if !&*STIME_ACTIVE { return Ok(()) }
StartGate(t, x) ==
    IF ~STIME_ACTIVE
    THEN rtry(t, "Ok")
    ELSE /\ Goto(t, "s_now")
         /\ Locals(t, x, 0, 0)
         /\ NoResult(t)
         /\ outcome' = [outcome EXCEPT ![t] = "running"]

\* start!(@target, msg)
StartTarget(t) ==
    /\ BeginCall(t, "start_at")
    /\ \E x \in Custom : StartGate(t, x)
    /\ UNCHANGED <<STIME_ACTIVE, clockVars, timerVars, sinkVars, guard, fmtVars, logVars>>

\* start!() and start!(msg): the target is ::std::io::stderr()
StartMsg(t) ==
    /\ BeginCall(t, "start")
    /\ StartGate(t, Stderr)
    /\ UNCHANGED <<STIME_ACTIVE, clockVars, timerVars, sinkVars, guard, fmtVars, logVars>>

\* the right-hand side of *CHRONO.lock()? = Instant::now()
StartNow(t) ==
    /\ pc[t] = "s_now"
    /\ InstantNow
    /\ tmp' = [tmp EXCEPT ![t] = now']
    /\ Goto(t, "s_chrono")
    /\ UNCHANGED <<STIME_ACTIVE, timerVars, sinkVars, calls, op, id, target, delta,
                   res, outcome, guard, fmtVars, logVars>>

StartChrono(t) ==
    /\ pc[t] = "s_chrono"
    /\ CHRONO' = Some(tmp[t])
    /\ Goto(t, "s_last")
    /\ UNCHANGED <<STIME_ACTIVE, clockVars, LAST_DURATION, lastPoisoned, hist,
                   sinkVars, calls, op, id, target, tmp, delta, res, outcome, guard,
                   fmtVars, logVars>>

\* start! as it would be if it left LAST_DURATION alone
StartLastKeep(t) ==
    /\ pc[t] = "s_last"
    /\ hist' = Remember(hist, [call |-> id[t], ev |-> "start", total |-> 0, delta |-> 0])
    /\ Goto(t, "s_w1")
    /\ UNCHANGED <<STIME_ACTIVE, clockVars, CHRONO, LAST_DURATION, lastPoisoned,
                   sinkVars, calls, op, id, target, tmp, delta, res, outcome, guard,
                   fmtVars, logVars>>

\* *LAST_DURATION.lock()? = None
StartLast(t) ==
    /\ pc[t] = "s_last"
    /\ IF lastPoisoned
       THEN /\ rtry(t, "PoisonErr")
            /\ UNCHANGED <<LAST_DURATION, hist>>
       ELSE /\ LAST_DURATION' = None
            /\ hist' = Remember(hist, [call |-> id[t], ev |-> "start",
                                       total |-> 0, delta |-> 0])
            /\ Goto(t, "s_w1")
            /\ UNCHANGED <<target, tmp, delta, res, outcome>>
    /\ UNCHANGED <<STIME_ACTIVE, clockVars, CHRONO, lastPoisoned, sinkVars,
                   calls, op, id, guard, fmtVars, logVars>>

\* writeln!(&mut target, "{} {}", "Starting", msg)?: straight to the target,
\* without the OUTPUT_TARGET guard
StartWrite1(t) ==
    /\ pc[t] = "s_w1"
    /\ \E ok \in BOOLEAN :
        IF ok
        THEN /\ written' = Append(written, Piece(target[t], id[t], "Starting", 1, NoDur))
             /\ Goto(t, "s_w2")
             /\ UNCHANGED <<target, tmp, delta, res, outcome>>
        ELSE /\ rtry(t, "WriteErr")
             /\ UNCHANGED written
    /\ UNCHANGED <<STIME_ACTIVE, clockVars, timerVars, OUTPUT_TARGET, outLock,
                   calls, op, id, guard, fmtVars, logVars>>

\* start! as it would be if it installed its target before writing to it
StartWrite2Installed(t) ==
    /\ pc[t] = "s_w2"
    /\ OUTPUT_TARGET' = target[t]
    /\ \E ok \in BOOLEAN :
        IF ok
        THEN /\ written' = Append(written, Piece(target[t], id[t], "Starting", 2, NoDur))
             /\ Goto(t, "s_install")
             /\ UNCHANGED <<target, tmp, delta, res, outcome>>
        ELSE /\ rtry(t, "WriteErr")
             /\ UNCHANGED written
    /\ UNCHANGED <<STIME_ACTIVE, clockVars, timerVars, outLock,
                   calls, op, id, guard, fmtVars, logVars>>

StartWrite2(t) ==
    /\ pc[t] = "s_w2"
    /\ \E ok \in BOOLEAN :
        IF ok
        THEN /\ written' = Append(written, Piece(target[t], id[t], "Starting", 2, NoDur))
             /\ Goto(t, "s_install")
             /\ UNCHANGED <<target, tmp, delta, res, outcome>>
        ELSE /\ rtry(t, "WriteErr")
             /\ UNCHANGED written
    /\ UNCHANGED <<STIME_ACTIVE, clockVars, timerVars, OUTPUT_TARGET, outLock,
                   calls, op, id, guard, fmtVars, logVars>>

\* start! as it would be if it never installed its target
StartInstallSkip(t) ==
    /\ pc[t] = "s_install"
    /\ rtry(t, "Ok")
    /\ UNCHANGED <<STIME_ACTIVE, clockVars, timerVars, sinkVars, calls, op, id,
                   guard, fmtVars, logVars>>

\* *OUTPUT_TARGET.get() = Box::new(target); Ok(())
StartInstall(t) ==
    /\ pc[t] = "s_install"
    /\ outLock = None
    /\ OUTPUT_TARGET' = target[t]
    /\ rtry(t, "Ok")
    /\ UNCHANGED <<STIME_ACTIVE, clockVars, timerVars, outLock, written,
                   calls, op, id, guard, fmtVars, logVars>>

\* -------------------------------------------------------------- check!
\* if !&*STIME_ACTIVE { return Ok(()) }
CheckGate(t) ==
    /\ BeginCall(t, "check")
    /\ IF ~STIME_ACTIVE
       THEN rtry(t, "Ok")
       ELSE /\ Goto(t, "c_total")
            /\ NoResult(t)
            /\ outcome' = [outcome EXCEPT ![t] = "running"]
            /\ UNCHANGED <<target, tmp, delta>>
    /\ UNCHANGED <<STIME_ACTIVE, clockVars, timerVars, sinkVars, guard, fmtVars, logVars>>

\* let total_time = CHRONO.lock()?.elapsed(); the first use of CHRONO creates
\* it with Instant::now() (Lazy::new), and elapsed() reads the clock again
CheckTotal(t) ==
    /\ pc[t] = "c_total"
    /\ InstantNow
    /\ IF CHRONO = None
       THEN /\ CHRONO' = Some(now')
            /\ UNCHANGED <<pc, tmp>>
       ELSE /\ tmp' = [tmp EXCEPT ![t] =
                    IF now' >= CHRONO.val THEN now' - CHRONO.val ELSE 0]
            /\ Goto(t, "c_delta")
            /\ UNCHANGED CHRONO
    /\ UNCHANGED <<STIME_ACTIVE, LAST_DURATION, lastPoisoned, hist, sinkVars,
                   calls, op, id, target, delta, res, outcome, guard, fmtVars, logVars>>

\* check! as it would be if delta were always total_time
CheckDeltaNoLast(t) ==
    /\ pc[t] = "c_delta"
    /\ delta' = [delta EXCEPT ![t] = tmp[t]]
    /\ Goto(t, "c_store")
    /\ UNCHANGED <<STIME_ACTIVE, clockVars, timerVars, sinkVars, calls, op, id,
                   target, tmp, res, outcome, guard, fmtVars, logVars>>

\* let delta = if let Some(last_dur) = *LAST_DURATION.lock()? { total_time - last_dur }
\* else { total_time }; Duration's Sub panics on underflow, with the guard held
CheckDelta(t) ==
    /\ pc[t] = "c_delta"
    /\ IF lastPoisoned
       THEN /\ rtry(t, "PoisonErr")
            /\ UNCHANGED lastPoisoned
       ELSE IF LAST_DURATION # None /\ tmp[t] < LAST_DURATION.val
       THEN /\ lastPoisoned' = TRUE
            /\ outcome' = [outcome EXCEPT ![t] = "overflow"]
            /\ UNCHANGED res
            /\ Ended(t)
       ELSE /\ delta' = [delta EXCEPT ![t] =
                    IF LAST_DURATION # None THEN tmp[t] - LAST_DURATION.val ELSE tmp[t]]
            /\ Goto(t, "c_store")
            /\ UNCHANGED <<lastPoisoned, target, tmp, res, outcome>>
    /\ UNCHANGED <<STIME_ACTIVE, clockVars, CHRONO, LAST_DURATION, hist, sinkVars,
                   calls, op, id, guard, fmtVars, logVars>>

\* check! as it would be if it never stored total_time
CheckStoreSkip(t) ==
    /\ pc[t] = "c_store"
    /\ hist' = Remember(hist, [call |-> id[t], ev |-> "check",
                               total |-> tmp[t], delta |-> delta[t]])
    /\ Goto(t, "c_w1")
    /\ UNCHANGED <<STIME_ACTIVE, clockVars, CHRONO, LAST_DURATION, lastPoisoned,
                   sinkVars, calls, op, id, target, tmp, delta, res, outcome, guard,
                   fmtVars, logVars>>

\* *LAST_DURATION.lock()? = Some(total_time)
CheckStore(t) ==
    /\ pc[t] = "c_store"
    /\ IF lastPoisoned
       THEN /\ rtry(t, "PoisonErr")
            /\ UNCHANGED <<LAST_DURATION, hist>>
       ELSE /\ LAST_DURATION' = Some(tmp[t])
            /\ hist' = Remember(hist, [call |-> id[t], ev |-> "check",
                                       total |-> tmp[t], delta |-> delta[t]])
            /\ Goto(t, "c_w1")
            /\ UNCHANGED <<target, tmp, delta, res, outcome>>
    /\ UNCHANGED <<STIME_ACTIVE, clockVars, CHRONO, lastPoisoned, sinkVars,
                   calls, op, id, guard, fmtVars, logVars>>

\* writeln!(OUTPUT_TARGET.get(), "[TotalTime: {} / DeltaTime: {}] {}", ...):
\* the guard is taken, the pieces are written, the guard is dropped
CheckWrite1(t) ==
    /\ pc[t] = "c_w1"
    /\ outLock = None
    /\ \E ok \in BOOLEAN :
        IF ok
        THEN /\ written' = Append(written,
                    Piece(OUTPUT_TARGET, id[t], "check", 1, FDur(tmp[t])))
             /\ outLock' = Some(t)
             /\ Goto(t, "c_w2")
             /\ UNCHANGED <<target, tmp, delta, res, outcome>>
        ELSE /\ rtry(t, "WriteErr")
             /\ UNCHANGED <<written, outLock>>
    /\ UNCHANGED <<STIME_ACTIVE, clockVars, timerVars, OUTPUT_TARGET, calls, op, id,
                   guard, fmtVars, logVars>>

\* check! as it would be if the guard of OUTPUT_TARGET outlived the call
CheckWrite2KeepsLock(t) ==
    /\ pc[t] = "c_w2"
    /\ UNCHANGED outLock
    /\ \E ok \in BOOLEAN :
        IF ok
        THEN /\ written' = Append(written,
                    Piece(OUTPUT_TARGET, id[t], "check", 2, FDur(delta[t])))
             /\ rtry(t, "Ok")
        ELSE /\ rtry(t, "WriteErr")
             /\ UNCHANGED written
    /\ UNCHANGED <<STIME_ACTIVE, clockVars, timerVars, OUTPUT_TARGET, calls, op, id,
                   guard, fmtVars, logVars>>

CheckWrite2(t) ==
    /\ pc[t] = "c_w2"
    /\ outLock' = None
    /\ \E ok \in BOOLEAN :
        IF ok
        THEN /\ written' = Append(written,
                    Piece(OUTPUT_TARGET, id[t], "check", 2, FDur(delta[t])))
             /\ rtry(t, "Ok")
        ELSE /\ rtry(t, "WriteErr")
             /\ UNCHANGED written
    /\ UNCHANGED <<STIME_ACTIVE, clockVars, timerVars, OUTPUT_TARGET, calls, op, id,
                   guard, fmtVars, logVars>>

\* -------------------------------------------------------------- Target
\* Target::reset as it would be if it reset the timer too
ResetClearsTimer(t) ==
    /\ BeginCall(t, "reset")
    /\ NoResult(t)
    /\ outLock = None
    /\ OUTPUT_TARGET' = Stderr
    /\ LAST_DURATION' = None
    /\ outcome' = [outcome EXCEPT ![t] = "ok"]
    /\ UNCHANGED <<STIME_ACTIVE, clockVars, CHRONO, lastPoisoned, hist, outLock,
                   written, pc, target, tmp, delta, guard, fmtVars, logVars>>

\* OUTPUT_TARGET.reset()
Reset(t) ==
    /\ BeginCall(t, "reset")
    /\ NoResult(t)
    /\ outLock = None
    /\ OUTPUT_TARGET' = Stderr
    /\ outcome' = [outcome EXCEPT ![t] = "ok"]
    /\ UNCHANGED <<STIME_ACTIVE, clockVars, timerVars, outLock, written, pc,
                   target, tmp, delta, guard, fmtVars, logVars>>

\* Target::set(sink)
Set(t) ==
    /\ BeginCall(t, "set")
    /\ NoResult(t)
    /\ outLock = None
    /\ \E x \in Custom : OUTPUT_TARGET' = x
    /\ outcome' = [outcome EXCEPT ![t] = "ok"]
    /\ UNCHANGED <<STIME_ACTIVE, clockVars, timerVars, outLock, written, pc,
                   target, tmp, delta, guard, fmtVars, logVars>>

\* ------------------------------------------------------------- time_it
\* TimeIt { start: Instant::now(), msg }
time_it(t) ==
    /\ BeginCall(t, "time_it")
    /\ NoResult(t)
    /\ guard[t] = None
    /\ InstantNow
    /\ guard' = [guard EXCEPT ![t] = Some([start |-> now', call |-> calls + 1])]
    /\ outcome' = [outcome EXCEPT ![t] = "ok"]
    /\ UNCHANGED <<STIME_ACTIVE, timerVars, sinkVars, pc, target, tmp, delta, fmtVars, logVars>>

\* TimeIt::drop: let end = Instant::now(); let dur = end.duration_since(self.start)
DropNow(t) ==
    /\ pc[t] = "idle"
    /\ guard[t] # None
    /\ InstantNow
    /\ op' = [op EXCEPT ![t] = "drop"]
    /\ id' = [id EXCEPT ![t] = guard[t].val.call]
    /\ tmp' = [tmp EXCEPT ![t] =
            IF now' >= guard[t].val.start THEN now' - guard[t].val.start ELSE 0]
    /\ NoResult(t)
    /\ outcome' = [outcome EXCEPT ![t] = "running"]
    /\ Goto(t, "d_w1")
    /\ UNCHANGED <<STIME_ACTIVE, timerVars, sinkVars, calls, target, delta,
                   guard, fmtVars, logVars>>

\* let _ = ...: the Result r of the write is dropped, and so is the guard
Dropped(t, r) ==
    /\ res' = [res EXCEPT ![t] = r]
    /\ guard' = [guard EXCEPT ![t] = None]
    /\ outcome' = [outcome EXCEPT ![t] = "ok"]
    /\ Ended(t)

\* TimeIt::drop as it would be if it wrote only with STIME_ACTIVE on
DropWrite1Gated(t) ==
    /\ pc[t] = "d_w1"
    /\ outLock = None
    /\ IF STIME_ACTIVE
       THEN /\ written' = Append(written,
                    Piece(OUTPUT_TARGET, id[t], "time_it", 1, NoDur))
            /\ outLock' = Some(t)
            /\ Goto(t, "d_w2")
            /\ UNCHANGED <<guard, res, outcome, target, tmp, delta>>
       ELSE /\ Dropped(t, "Ok")
            /\ UNCHANGED <<written, outLock>>
    /\ UNCHANGED <<STIME_ACTIVE, clockVars, timerVars, OUTPUT_TARGET, calls, op, id,
                   fmtVars, logVars>>

\* TimeIt::drop as it would be if the Result of the write went through rtry!
DropWrite1Fatal(t) ==
    /\ pc[t] = "d_w1"
    /\ outLock = None
    /\ \E ok \in BOOLEAN :
        IF ok
        THEN /\ written' = Append(written,
                    Piece(OUTPUT_TARGET, id[t], "time_it", 1, NoDur))
             /\ outLock' = Some(t)
             /\ Goto(t, "d_w2")
             /\ UNCHANGED <<guard, res, outcome, target, tmp, delta>>
        ELSE /\ rtry(t, "WriteErr")
             /\ guard' = [guard EXCEPT ![t] = None]
             /\ UNCHANGED <<written, outLock>>
    /\ UNCHANGED <<STIME_ACTIVE, clockVars, timerVars, OUTPUT_TARGET, calls, op, id,
                   fmtVars, logVars>>

\* let _ = writeln!(OUTPUT_TARGET.get(), "{}: {}", self.msg, FDur(dur))
DropWrite1(t) ==
    /\ pc[t] = "d_w1"
    /\ outLock = None
    /\ \E ok \in BOOLEAN :
        IF ok
        THEN /\ written' = Append(written,
                    Piece(OUTPUT_TARGET, id[t], "time_it", 1, NoDur))
             /\ outLock' = Some(t)
             /\ Goto(t, "d_w2")
             /\ UNCHANGED <<guard, res, outcome, target, tmp, delta>>
        ELSE /\ Dropped(t, "WriteErr")
             /\ UNCHANGED <<written, outLock>>
    /\ UNCHANGED <<STIME_ACTIVE, clockVars, timerVars, OUTPUT_TARGET, calls, op, id,
                   fmtVars, logVars>>

DropWrite2(t) ==
    /\ pc[t] = "d_w2"
    /\ outLock' = None
    /\ \E ok \in BOOLEAN :
        IF ok
        THEN /\ written' = Append(written,
                    Piece(OUTPUT_TARGET, id[t], "time_it", 2, FDur(tmp[t])))
             /\ Dropped(t, "Ok")
        ELSE /\ Dropped(t, "WriteErr")
             /\ UNCHANGED written
    /\ UNCHANGED <<STIME_ACTIVE, clockVars, timerVars, OUTPUT_TARGET, calls, op, id,
                   fmtVars, logVars>>

\* ---------------------------------------------------------------- Next
ThreadStep(t) ==
    \/ StartTarget(t)
    \/ StartMsg(t)
    \/ StartNow(t)
    \/ StartChrono(t)
    \/ StartLast(t)
    \/ StartWrite1(t)
    \/ StartWrite2(t)
    \/ StartInstall(t)
    \/ CheckGate(t)
    \/ CheckTotal(t)
    \/ CheckDelta(t)
    \/ CheckStore(t)
    \/ CheckWrite1(t)
    \/ CheckWrite2(t)
    \/ Reset(t)
    \/ Set(t)
    \/ time_it(t)
    \/ DropNow(t)
    \/ DropWrite1(t)
    \/ DropWrite2(t)

Next == \E t \in Threads : ThreadStep(t)

Spec == Init /\ [][Next]_vars

\* a thread inside a call takes the next statement of the call
Running(t) ==
    \/ StartNow(t)
    \/ StartChrono(t)
    \/ StartLast(t)
    \/ StartWrite1(t)
    \/ StartWrite2(t)
    \/ StartInstall(t)
    \/ CheckTotal(t)
    \/ CheckDelta(t)
    \/ CheckStore(t)
    \/ CheckWrite1(t)
    \/ CheckWrite2(t)
    \/ DropWrite1(t)
    \/ DropWrite2(t)

\* several threads, the clock advancing at most once, and every thread that
\* is inside a call and can take its next statement eventually scheduled
LiveNext == Next /\ ticks' <= 1

LiveSpec == Init /\ [][LiveNext]_vars /\ \A t \in Threads : WF_vars(Running(t) /\ ticks' <= 1)

\* one thread only
SeqNext == ThreadStep(MainThread)

SeqSpec == Init /\ [][SeqNext]_vars

\* the formatter alone, on durations around every change of unit
Pow10(n) == IF n = 3 THEN 1000 ELSE IF n = 6 THEN 1000000 ELSE 1000000000

FmtInputs ==
    (0..FmtWindow)
    \cup UNION {(Pow10(n) - FmtWindow)..(Pow10(n) + FmtWindow) : n \in {3, 6, 9}}
    \cup {Pow10(n) + (Pow10(n) \div 2) : n \in {3, 6, 9}}
    \cup {2 * Pow10(9) - 1, 2 * Pow10(9)}

Format ==
    /\ \E d \in FmtInputs :
        /\ fmtIn' = d
        /\ fmtOut' = FDur(d)
    /\ UNCHANGED <<STIME_ACTIVE, clockVars, timerVars, sinkVars, calls, op, id, pc,
                   target, tmp, delta, res, outcome, guard, logVars>>

FmtSpec == Init /\ [][Format]_vars

\* ----------------------------------------------------------- CustomLog
\* the steps of the timer leave the log alone
LogFrame ==
    UNCHANGED <<STIME_ACTIVE, clockVars, timerVars, sinkVars, calls, op, id, pc,
                target, tmp, delta, res, outcome, guard, fmtVars>>

\* Clone for CustomLog as it would be if it copied the Log into a new Arc
CloneDeep ==
    /\ logHandle["clone"] = 0
    /\ logHandle' = [logHandle EXCEPT !["clone"] = 2]
    /\ logCell' = [logCell EXCEPT ![2] = logCell[logHandle["log"]]]
    /\ UNCHANGED <<logGot, logUnread>>
    /\ LogFrame

\* Clone for CustomLog: Self { log: self.log.clone() }, the same Arc
Clone ==
    /\ logHandle["clone"] = 0
    /\ logHandle' = [logHandle EXCEPT !["clone"] = logHandle["log"]]
    /\ UNCHANGED <<logCell, logGot, logUnread>>
    /\ LogFrame

\* io::Write for CustomLog: self.lock().write(buf), and Log::write:
\* self.v.write(buf) appends the whole of buf
LogWrite(h) ==
    /\ logHandle[h] # 0
    /\ Len(logCell[logHandle[h]].v) < MaxLog
    /\ \E b \in Bytes :
        /\ logCell' = [logCell EXCEPT ![logHandle[h]].v = Append(@, b)]
        /\ logUnread' = Append(logUnread, b)
    /\ logGot' = [g \in Handles |-> NoRead]
    /\ UNCHANGED logHandle
    /\ LogFrame

\* Log::read(buf): n = buf.write(&self.v[self.c..]); self.c += n; Ok(n)
LogReadN(l, n) ==
    IF Len(l.v) - l.c < n THEN Len(l.v) - l.c ELSE n

\* Read::read_to_string: calls of Log::read until one returns 0; the text
\* read, and the cursor left behind
RECURSIVE read_to_string(_, _)
read_to_string(l, s) ==
    LET n == LogReadN(l, ReadBuf)
    IN  IF n = 0 THEN [text |-> s, c |-> l.c]
        ELSE read_to_string([l EXCEPT !.c = l.c + n],
                            s \o SubSeq(l.v, l.c + 1, l.c + n))

\* CustomLog::read: self.lock().read_to_string(&mut s)?; Ok(s)
LogRead(h) ==
    /\ logHandle[h] # 0
    /\ LET r == read_to_string(logCell[logHandle[h]], <<>>)
       IN  /\ logGot' = [logGot EXCEPT ![h] = [tag |-> "Read", text |-> r.text,
                                                unread |-> logUnread]]
           /\ logCell' = [logCell EXCEPT ![logHandle[h]].c = r.c]
    /\ logUnread' = <<>>
    /\ UNCHANGED logHandle
    /\ LogFrame

LogNext ==
    \/ Clone
    \/ \E h \in Handles : LogWrite(h)
    \/ \E h \in Handles : LogRead(h)

LogSpec == Init /\ [][LogNext]_vars

\* ------------------------------------------------------------ the log
\* a thread takes a step
Acts(t) == pc'[t] # pc[t] \/ id'[t] # id[t]

\* the last call of t, made by one of ops, has ended
Finished(t, ops) == pc[t] = "idle" /\ op[t] \in ops

StartOps == {"start", "start_at"}
TimerOps == StartOps \cup {"check"}

\* the places of the pieces that call c wrote
PiecesOf(c, k) == {i \in DOMAIN written : written[i].call = c /\ written[i].kind = k}

\* call c's line begins at place i of the log, whole, on sink s
WholeLineAt(i, c, k, s) ==
    /\ i \in DOMAIN written /\ i + 1 \in DOMAIN written
    /\ written[i].call = c /\ written[i].kind = k
    /\ written[i].part = 1 /\ written[i].sink = s
    /\ written[i + 1].call = c /\ written[i + 1].kind = k
    /\ written[i + 1].part = 2 /\ written[i + 1].sink = s

WholeLines(c, k, s) == {i \in DOMAIN written : WholeLineAt(i, c, k, s)}

HasWholeLine(c, k) == \E s \in Sinks : WholeLines(c, k, s) # {}

\* ------------------------------------------------------------------ C1
\* C1: with STIME_ACTIVE off, every start! and check! call, with or without a
\* target, ends at once and normally, writes nothing, and leaves CHRONO,
\* LAST_DURATION and OUTPUT_TARGET as they were.
C1_GateOffNoEffect ==
    [][\A t \in Threads :
        (~STIME_ACTIVE /\ Acts(t) /\ op'[t] \in TimerOps) =>
            /\ UNCHANGED <<CHRONO, LAST_DURATION, lastPoisoned, hist,
                           OUTPUT_TARGET, outLock, written>>
            /\ pc'[t] = "idle"
            /\ outcome'[t] = "ok"]_vars

C1_Witness ==
    /\ ~STIME_ACTIVE
    /\ calls >= 3
    /\ Finished(MainThread, {"start_at"})
    /\ outcome[MainThread] = "ok"
    /\ OUTPUT_TARGET = Stderr
    /\ CHRONO = None

\* ------------------------------------------------------------------ C2
\* C2: in one thread, a check! that follows a check! with no start! between
\* them computes delta = its total - the earlier total (the totals do not
\* decrease), the first check! after a start! computes delta = total, and
\* the line of a check! shows its total and its delta.
C2_DeltaIsDifference ==
    /\ \A k \in 2..Len(hist) :
        hist[k].ev = "check" =>
            IF hist[k - 1].ev = "check"
            THEN /\ hist[k - 1].total <= hist[k].total
                 /\ hist[k].delta = hist[k].total - hist[k - 1].total
            ELSE hist[k].delta = hist[k].total
    /\ \A k \in DOMAIN hist : \A i \in PiecesOf(hist[k].call, "check") :
        written[i].dur = FDur(IF written[i].part = 1 THEN hist[k].total
                              ELSE hist[k].delta)

C2_Witness ==
    /\ Len(hist) = 3
    /\ hist[1].ev = "start" /\ hist[2].ev = "check" /\ hist[3].ev = "check"
    /\ 0 < hist[2].total /\ hist[2].total < hist[3].total
    /\ HasWholeLine(hist[2].call, "check")
    /\ HasWholeLine(hist[3].call, "check")

\* ------------------------------------------------------------------ C3
\* C3: in one thread, once start! has reset the timer CHRONO is the instant
\* it read and LAST_DURATION is None, and the check! that follows a start!
\* computes and shows delta = total, whatever the earlier check! calls stored.
C3_StartResetsDelta ==
    /\ \A t \in Threads :
        pc[t] \in {"s_w1", "s_w2", "s_install"} =>
            CHRONO = Some(now) /\ LAST_DURATION = None
    /\ \A k \in 2..Len(hist) :
        (hist[k].ev = "check" /\ hist[k - 1].ev = "start") =>
            /\ hist[k].delta = hist[k].total
            /\ \A i \in PiecesOf(hist[k].call, "check") :
                written[i].dur = FDur(hist[k].total)

C3_Witness ==
    /\ Len(hist) = 3
    /\ hist[1].ev = "check" /\ hist[2].ev = "start" /\ hist[3].ev = "check"
    /\ hist[1].total > 0
    /\ hist[3].total > hist[1].total
    /\ HasWholeLine(hist[3].call, "check")

\* ------------------------------------------------------------------ C4
\* C4: in one thread with STIME_ACTIVE on, when start!(@x, a) has written its
\* line and the next call, check!(b), has returned normally, the "Starting"
\* line and then the check line are on x, and neither call wrote anything to
\* another sink.
C4_StartTargetThenCheck ==
    \A t \in Threads : \A x \in Custom :
        ( /\ STIME_ACTIVE
          /\ Finished(t, {"check"}) /\ outcome[t] = "ok"
          /\ WholeLines(id[t] - 1, "Starting", x) # {} ) =>
            /\ \E i \in WholeLines(id[t] - 1, "Starting", x) :
               \E j \in WholeLines(id[t], "check", x) : i < j
            /\ \A n \in DOMAIN written :
                written[n].call \in {id[t] - 1, id[t]} => written[n].sink = x

C4_Witness ==
    /\ Finished(MainThread, {"check"}) /\ outcome[MainThread] = "ok"
    /\ id[MainThread] = 3
    /\ WholeLines(1, "check", Stderr) # {}
    /\ WholeLines(2, "Starting", "X") # {}
    /\ WholeLines(3, "check", "X") # {}

\* ------------------------------------------------------------------ C5
\* C5: in one thread with STIME_ACTIVE on, when start!(@x, ..) has installed
\* x and the next call is a start! without a target, a check! or time_it,
\* then after that call x is still the installed sink (only start!(@target, ..),
\* set and reset change OUTPUT_TARGET).
C5_OnlyExplicitTargetChanges ==
    \A t \in Threads : \A x \in Custom :
        ( /\ STIME_ACTIVE
          /\ Finished(t, {"start", "check", "time_it"})
          /\ WholeLines(id[t] - 1, "Starting", x) # {} ) =>
            OUTPUT_TARGET = x

\* ------------------------------------------------------------------ C6
\* C6: with STIME_ACTIVE on, when every thread has made one call, a check!, and
\* no sink rejected a write, every call has returned normally, each has its
\* one whole line on a sink, and the log holds as many whole check lines as
\* there are threads.
C6_ConcurrentChecksAllWrite ==
    ( /\ STIME_ACTIVE
      /\ calls = Cardinality(Threads)
      /\ \A t \in Threads : Finished(t, {"check"}) /\ res[t] # "WriteErr" ) =>
        /\ \A t \in Threads :
            /\ outcome[t] = "ok"
            /\ HasWholeLine(id[t], "check")
            /\ Cardinality(PiecesOf(id[t], "check")) = 2
        /\ Cardinality({i \in DOMAIN written :
                \E c \in 1..calls : \E s \in Sinks : WholeLineAt(i, c, "check", s)})
            = Cardinality(Threads)

\* ------------------------------------------------------------------ C7
\* C7 as claimed: once the guard of time_it has been dropped, its one whole
\* line is on the installed sink, with STIME_ACTIVE on or off.
C7_GuardAlwaysWritesOneLine ==
    \A t \in Threads :
        Finished(t, {"drop"}) =>
            Cardinality(WholeLines(id[t], "time_it", OUTPUT_TARGET)) = 1

\* C7 as amended: in one thread, with STIME_ACTIVE on or off, a guard writes
\* nothing before it is dropped and never more than one line; its drop always
\* ends normally; when the sink accepts the write the one whole line is on
\* the sink installed at the drop, and when the sink rejects it no whole line
\* is written.
C7_GuardWritesOneLineIfAccepted ==
    \A t \in Threads :
        /\ (guard[t] # None /\ pc[t] \notin {"d_w1", "d_w2"}) =>
            PiecesOf(guard[t].val.call, "time_it") = {}
        /\ (guard[t] # None /\ pc[t] = "d_w1") => PiecesOf(id[t], "time_it") = {}
        /\ Finished(t, {"drop"}) =>
            /\ outcome[t] = "ok"
            /\ guard[t] = None
            /\ IF res[t] = "Ok"
               THEN /\ Cardinality(WholeLines(id[t], "time_it", OUTPUT_TARGET)) = 1
                    /\ Cardinality(PiecesOf(id[t], "time_it")) = 2
               ELSE /\ ~HasWholeLine(id[t], "time_it")
                    /\ Cardinality(PiecesOf(id[t], "time_it")) <= 1

C7_Witness ==
    /\ ~STIME_ACTIVE
    /\ Finished(MainThread, {"drop"})
    /\ res[MainThread] = "Ok"
    /\ calls >= 2
    /\ WholeLines(id[MainThread], "time_it", Stderr) # {}

\* ------------------------------------------------------------------ C8
\* C8: with STIME_ACTIVE on, a start! whose sink accepts the write completes:
\* whatever calls came before it, and however they ended, it returns normally.
C8_StartAlwaysCompletes ==
    \A t \in Threads :
        (STIME_ACTIVE /\ Finished(t, StartOps) /\ res[t] # "WriteErr") =>
            outcome[t] = "ok"

\* ------------------------------------------------------------------ C9
\* C9: with STIME_ACTIVE on, a start! or check! whose write the sink rejected
\* ends in the panic "stime failed: ...", and one that returned normally has
\* written its whole line.
C9_WriteErrorIsFatal ==
    \A t \in Threads :
        (STIME_ACTIVE /\ Finished(t, TimerOps)) =>
            /\ res[t] = "WriteErr" =>
                (outcome[t] = "failed: write" /\ ~HasWholeLine(id[t], 
                    IF op[t] = "check" THEN "check" ELSE "Starting"))
            /\ outcome[t] = "ok" =>
                (res[t] = "Ok" /\ HasWholeLine(id[t],
                    IF op[t] = "check" THEN "check" ELSE "Starting"))

C9_Witness ==
    /\ STIME_ACTIVE
    /\ Finished(MainThread, {"check"})
    /\ res[MainThread] = "WriteErr"
    /\ outcome[MainThread] = "failed: write"
    /\ Cardinality(PiecesOf(id[MainThread], "check")) = 1

\* ----------------------------------------------------------------- C10
\* C10: the formatter shows a duration d of at least 10^9 ns as d / 10^9 s,
\* else one of at least 10^6 ns as d / 10^6 ms, else one of at least 10^3 ns
\* as d / 10^3 us, else as d ns, every quotient truncated.
C10_FormatterTruncates ==
    fmtOut # NoDur =>
        /\ fmtIn >= 1000000000 => fmtOut = <<fmtIn \div 1000000000, "s">>
        /\ (1000000 <= fmtIn /\ fmtIn < 1000000000) =>
            fmtOut = <<fmtIn \div 1000000, "ms">>
        /\ (1000 <= fmtIn /\ fmtIn < 1000000) => fmtOut = <<fmtIn \div 1000, "us">>
        /\ fmtIn < 1000 => fmtOut = <<fmtIn, "ns">>
        /\ fmtIn = 1500000 => fmtOut = <<1, "ms">>
        /\ fmtIn = 999999 => fmtOut = <<999, "us">>
        /\ fmtIn = 0 => fmtOut = <<0, "ns">>

C10_Witness == fmtIn = 1500000 /\ fmtOut = <<1, "ms">>

\* ----------------------------------------------------------------- C11
\* C11 as claimed: when the log has been read through the original handle and
\* through its clone with no write between the two reads, both reads
\* returned the same text.
C11_BothReadsSameText ==
    (logGot["log"] # NoRead /\ logGot["clone"] # NoRead) =>
        logGot["log"].text = logGot["clone"].text

\* C11 as amended: a clone and its original share one buffer and one read
\* position: every read through either handle returns exactly the text written
\* through either handle since the last read through either, and of two reads
\* with no write between them the second returns the empty text.
C11_ReadsShareBufferAndCursor ==
    /\ \A h \in Handles :
        logGot[h] # NoRead => logGot[h].text = logGot[h].unread
    /\ (logGot["log"] # NoRead /\ logGot["clone"] # NoRead) =>
        (logGot["log"].text = <<>> \/ logGot["clone"].text = <<>>)
    /\ \A h \in Handles :
        logHandle[h] # 0 => logCell[logHandle[h]] = logCell[logHandle["log"]]

C11_Witness ==
    /\ logHandle["clone"] # 0
    /\ logGot["log"] # NoRead /\ logGot["clone"] # NoRead
    /\ logGot["log"].text = <<>>
    /\ Len(logGot["clone"].text) = 2
    /\ logCell[1].c = 3

\* ----------------------------------------------------------------- C12
\* call c wrote to a sink and was not a start! with a target: it was neither
\* set, reset nor start!(@target, ..)
KeepsTarget(c) ==
    \E i \in DOMAIN written :
        /\ written[i].call = c
        /\ written[i].kind = "Starting" => written[i].sink = Stderr

C13_LastNeverExceedsTotal ==
    /\ \A t \in Threads :
        (pc[t] = "c_delta" /\ ~lastPoisoned /\ LAST_DURATION # None) =>
            LAST_DURATION.val <= tmp[t]
    /\ \A t \in Threads : outcome[t] # "overflow"
    /\ \A k \in 2..Len(hist) :
        (hist[k].ev = "check" /\ hist[k - 1].ev = "check") =>
            hist[k - 1].total <= hist[k].total

\* ----------------------------------------------------------------- C14
\* C14: with STIME_ACTIVE on, when the only calls of the run are a
\* start!(@x, ..) and a check! running concurrently, no piece of the check
\* line is written to another sink than x after the "Starting" line has
\* appeared, whole, on x.
C14_InstalledBeforeStartingLine ==
    \A t \in Threads : \A u \in Threads \ {t} :
        (STIME_ACTIVE /\ calls = 2 /\ op[t] = "start_at" /\ op[u] = "check") =>
            \A i \in DOMAIN written : \A j \in DOMAIN written :
                ( /\ i < j
                  /\ written[i].call = id[t] /\ written[i].part = 2
                  /\ written[j].call = id[u] ) =>
                    written[j].sink = written[i].sink

\* ----------------------------------------------------------------- C15
\* the lock t's next statement takes is held by another thread
Waits(t) ==
    /\ pc[t] \in {"c_w1", "d_w1", "s_install"}
    /\ outLock # None

\* C15: no thread ever holds a lock while it waits for another one (the
\* holder of OUTPUT_TARGET's lock is always at a statement that takes no
\* lock, and a thread that waits holds none), so no threads wait for each
\* other in a cycle; and under fair scheduling every call that has begun
\* ends: again and again no thread is inside a call.
C15_NoLockCycleAndCallsEnd ==
    /\ [](\A t \in Threads :
            /\ (outLock = Some(t)) => (pc[t] \in {"c_w2", "d_w2"} /\ ~Waits(t))
            /\ Waits(t) => (outLock # Some(t) /\ ~Waits(outLock.val)))
    /\ []<>(\A t \in Threads : pc[t] = "idle")

C15_Witness ==
    \E t \in Threads : \E u \in Threads :
        /\ Waits(t) /\ pc[t] = "s_install"
        /\ outLock = Some(u) /\ pc[u] = "d_w2"

\* ----------------------------------------------------------------- C16
\* the check! of t is the first timer event of the run: no start! and no
\* other check! has reached the timer
FirstCheck(t) ==
    /\ op[t] = "check"
    /\ hist = <<>> \/ (Len(hist) = 1 /\ hist[1].call = id[t] /\ hist[1].ev = "check")

C17_DropSwallowsWriteError ==
    [][\A t \in Threads :
        (pc[t] \in {"d_w1", "d_w2"} /\ pc'[t] = "idle" /\ res'[t] # "Ok") =>
            /\ res'[t] = "WriteErr"
            /\ outcome'[t] = "ok"
            /\ guard'[t] = None
            /\ outLock' = None
            /\ UNCHANGED <<CHRONO, LAST_DURATION, lastPoisoned, hist,
                           OUTPUT_TARGET, written>>
            /\ \A u \in Threads \ {t} : outcome'[u] = outcome[u]]_vars

C17_Witness ==
    /\ STIME_ACTIVE
    /\ Finished(MainThread, {"drop"})
    /\ res[MainThread] = "WriteErr"
    /\ outcome[MainThread] = "ok"
    /\ LAST_DURATION # None
    /\ OUTPUT_TARGET = "X"
    /\ Cardinality(PiecesOf(id[MainThread], "time_it")) = 1

\* ----------------------------------------------------------------- C18
\* C18: CHRONO, once created, is changed only by the statement of start! that
\* stores the instant it read, and a check! at most creates it at its first
\* use; LAST_DURATION is changed only by start!, to None, and by the
\* statement of check! that stores its total; set, reset, time_it and the drop
\* of its guard leave both as they were.
C18_OnlyStartAndCheckMutateTimer ==
    [][/\ CHRONO' # CHRONO =>
            \/ \E t \in Threads :
                /\ op[t] \in StartOps /\ pc[t] = "s_chrono" /\ pc'[t] = "s_last"
                /\ CHRONO' = Some(tmp[t])
            \/ \E t \in Threads :
                /\ op[t] = "check" /\ pc[t] = "c_total"
                /\ CHRONO = None /\ CHRONO' = Some(now')
       /\ LAST_DURATION' # LAST_DURATION =>
            \/ \E t \in Threads :
                /\ op[t] \in StartOps /\ pc[t] = "s_last" /\ pc'[t] = "s_w1"
                /\ LAST_DURATION' = None
            \/ \E t \in Threads :
                /\ op[t] = "check" /\ pc[t] = "c_store" /\ pc'[t] = "c_w1"
                /\ LAST_DURATION' = Some(tmp[t])
       /\ \A t \in Threads :
            (Acts(t) /\ op'[t] \in {"set", "reset", "time_it", "drop"}) =>
                UNCHANGED <<CHRONO, LAST_DURATION, lastPoisoned, hist>>]_vars

C18_Witness ==
    /\ Finished(MainThread, {"reset"})
    /\ calls = 3
    /\ CHRONO = Some(1500)
    /\ LAST_DURATION = Some(150000)
    /\ guard[MainThread] = None

\* ----------------------------------------------------------------- C19
\* C19: with STIME_ACTIVE on, when a thread has completed a start! and then
\* made the next call, a check!, while the only other call of that time is a
\* check! of another thread that began before the start!, the check! after
\* the start! does not panic in the subtraction and computes delta = total.
C19_StartResetIsAtomic ==
    \A t \in Threads : \A u \in Threads \ {t} :
        ( /\ STIME_ACTIVE
          /\ op[t] = "check" /\ op[u] = "check"
          /\ id[u] = id[t] + 2
          /\ HasWholeLine(id[t] + 1, "Starting") ) =>
            /\ outcome[u] # "overflow"
            /\ \A k \in DOMAIN hist :
                hist[k].call = id[u] => hist[k].delta = hist[k].total

\* ----------------------------------------------------------------- C20
\* C20: in one thread with STIME_ACTIVE on, the step in which the sink x
\* rejects a write of the "Starting" line of start!(@x, ..) ends the call in
\* the panic of rtry! and leaves the installed sink as it was; and when that
\* start! was the first call of the run, the line of the check!, or of the drop
\* of the time_it guard, that comes next is on stderr, the sink installed
\* before it.
C20_FailedStartKeepsTarget ==
    /\ [](\A t \in Threads :
            ( /\ STIME_ACTIVE
              /\ Finished(t, {"check", "drop"})
              /\ id[t] = 2 /\ calls = 2
              /\ PiecesOf(1, "Starting") # {}
              /\ \A i \in PiecesOf(1, "Starting") :
                    written[i].sink \in Custom /\ written[i].part = 1 ) =>
                /\ OUTPUT_TARGET = Stderr
                /\ \A i \in DOMAIN written :
                    written[i].call = 2 => written[i].sink = Stderr)
    /\ [][\A t \in Threads :
            ( /\ op[t] = "start_at"
              /\ pc[t] \in {"s_w1", "s_w2"}
              /\ pc'[t] = "idle" ) =>
                /\ res'[t] = "WriteErr"
                /\ outcome'[t] = "failed: write"
                /\ OUTPUT_TARGET' = OUTPUT_TARGET
                /\ written' = written]_vars

C20_Witness ==
    /\ STIME_ACTIVE
    /\ Finished(MainThread, {"check"})
    /\ id[MainThread] = 2 /\ calls = 2
    /\ outcome[MainThread] = "ok"
    /\ Cardinality(PiecesOf(1, "Starting")) = 1
    /\ written[1].sink = "X"
    /\ WholeLines(2, "check", Stderr) # {}

====
